---- MODULE Spec2Model ----
(***************************************************************************)
(* State-machine model of the climate_learn streaming data pipeline        *)
(* (NpyReader -> Forecast -> IndividualDataIter -> ShuffleIterableDataset), *)
(* of the module loaders in climate_learn/__init__.py, of LitModule and of *)
(* StackedClimateDatasetArgs.                                              *)
(*                                                                         *)
(* Every component has its own group of variables and its own              *)
(* specification (SpecShuffle, SpecReader, ...); a specification leaves    *)
(* the variables of the other components at their idle values.             *)
(***************************************************************************)
EXTENDS Integers, Sequences, FiniteSets, TLC

(***************************************************************************)
(* State.                                                                  *)
(***************************************************************************)
\* ShuffleIterableDataset
VARIABLES
  dataset,      \* ShuffleIterableDataset.dataset: the upstream items, in order
  buffer_size,  \* ShuffleIterableDataset.buffer_size
  buf,          \* the local list buf of __iter__
  consumed,     \* how many upstream items the for loop has taken
  yielded,      \* the items __iter__ has yielded so far, in order
  shufflePc     \* position of __iter__: "fill", "drain", "done"

shuffleVars == <<dataset, buffer_size, buf, consumed, yielded, shufflePc>>

\* NpyReader
VARIABLES
  n_files,                 \* len(self.file_list); the files are 1..n_files
  shuffle,                 \* NpyReader.shuffle
  multi_dataset_training,  \* NpyReader.multi_dataset_training
  initialized,             \* torch.distributed.is_initialized()
  world_size,              \* number of DDP processes (ranks 0..world_size-1)
  num_workers,             \* DataLoader num_workers of every process
  NODES,                   \* os.environ.get("NODES", None): <<>> (unset) or <<n>>
  file_list,               \* per iterator: its copy of self.file_list
  iter_end,                \* per iterator: iter_end
  read_idx,                \* per iterator: the loop variable idx
  loaded,                  \* per iterator: the <<idx, path>> pairs it loaded
  readerPc                 \* per iterator: "new", "loop", "done" or the exception raised

readerVars == <<n_files, shuffle, multi_dataset_training, initialized, world_size,
                num_workers, NODES, file_list, iter_end, read_idx, loaded, readerPc>>

\* Forecast
VARIABLES
  random_lead_time,  \* Forecast.random_lead_time
  min_pred_range,    \* Forecast.min_pred_range
  max_pred_range,    \* Forecast.max_pred_range
  hrs_each_step,     \* Forecast.hrs_each_step
  history,           \* Forecast.history
  window,            \* Forecast.window
  time_steps,        \* T: the time steps of the file __iter__ took
  inp_data,          \* yielded inp_data: per window, per history slot, the source frame
  out_data,          \* yielded out_data: per window, the source frame of the target
  predict_ranges,    \* predict_ranges of the file
  output_ids,        \* output_ids of the file
  lead_times,        \* yielded lead_times, in hundredths (lead_times * 100)
  forecastPc         \* "args", "ready", "yielded" or the exception raised

forecastVars == <<random_lead_time, min_pred_range, max_pred_range, hrs_each_step,
                  history, window, time_steps, inp_data, out_data, predict_ranges,
                  output_ids, lead_times, forecastPc>>

\* IndividualDataIter over the Forecast above
VARIABLES
  data_transforms,    \* IndividualDataIter.transforms
  output_transforms,  \* IndividualDataIter.output_transforms
  subsample,          \* IndividualDataIter.subsample
  samples,            \* the samples __iter__ yielded from the item, in order
  individualPc        \* "ready", "done" or the exception raised

individualVars == <<data_transforms, output_transforms, subsample, samples,
                    individualPc>>

\* load_forecasting_module / load_downscaling_module: arguments and locals
VARIABLES
  loader,          \* "forecasting" or "downscaling": which loader is called
  preset,          \* argument preset
  model_arg,       \* argument model
  model,           \* local model (the argument, then the validated name)
  model_kwargs,    \* argument model_kwargs
  net_arg,         \* argument net
  net,             \* local net (the argument, then the built network)
  MODEL_REGISTRY,  \* the keys of models.hub.MODEL_REGISTRY
  out_in_subset,   \* set(out_vars).issubset(in_vars) of the data module
  optim,           \* argument optim
  optim_kwargs,    \* argument optim_kwargs
  lr_kwargs,       \* argument lr_kwargs
  optimizer_arg,   \* argument optimizer
  optimizer,       \* local optimizer (the argument, then _load_optimizer's result)
  train_loss,      \* argument and local train_loss
  val_loss,        \* argument and local val_loss
  test_loss,       \* argument and local test_loss
  warned,          \* the warnings issued so far, in order
  constructed,     \* what the loader has built so far, in order
  model_module,    \* <<>> or <<the attributes of the returned LitModule>>
  loadExc,         \* None or the exception the call ended with
  loadPc           \* "start", "validated", "net", "optimizer", "losses", "returned", "raised"

loadArgs == <<loader, preset, model_arg, model_kwargs, net_arg, MODEL_REGISTRY,
              out_in_subset, optim, optim_kwargs, lr_kwargs, optimizer_arg>>

loadVars == <<loadArgs, model, net, optimizer, train_loss, val_loss, test_loss,
              warned, constructed, model_module, loadExc, loadPc>>

\* LitModule: the arguments of LitModule(...), the attributes of the module and
\* the last step the trainer ran.  An optional value is <<>> (None, or an
\* attribute that is not set) or <<value>>.
VARIABLES
  new_val_loss,                \* argument val_loss: a list of loss functions
  new_test_loss,               \* argument test_loss
  new_val_target_transforms,   \* argument val_target_transforms: optional list
  new_test_target_transforms,  \* argument test_target_transforms: optional list
  lit_val_loss,                \* self.val_loss
  lit_test_loss,               \* self.test_loss
  lit_val_target_transforms,   \* self.val_target_transforms
  lit_test_target_transforms,  \* self.test_target_transforms
  lit_mode,                    \* self.mode: optional (unset before line 51)
  lit_n_iters,                 \* self.n_iters: optional (unset before set_n_iters)
  last_step,                   \* what the last validation_step / test_step did
  n_steps,                     \* how many steps the trainer has run
  litPc                        \* "args", "constructed" or the exception of __init__

litArgs == <<new_val_loss, new_test_loss, new_val_target_transforms,
             new_test_target_transforms>>

litFields == <<lit_val_loss, lit_test_loss, lit_val_target_transforms,
               lit_test_target_transforms, lit_mode, lit_n_iters>>

litVars == <<litArgs, litFields, last_step, n_steps, litPc>>

\* StackedClimateDatasetArgs
VARIABLES
  data_args,         \* argument data_args of __init__: the child args, in order
  child_data_args,   \* self.child_data_args
  data_module_args,  \* argument of the setup call in progress (0: none yet)
  setup_pos,         \* how many children the loop of setup has passed
  child_setups,      \* the <<child, argument>> setup calls made by this setup call
  n_setups,          \* how many setup calls have been made
  stackedPc          \* "args", "constructed", "setup"

stackedVars == <<data_args, child_data_args, data_module_args, setup_pos,
                 child_setups, n_setups, stackedPc>>

vars == <<shuffleVars, readerVars, forecastVars, individualVars, loadVars, litVars,
          stackedVars>>

\* what the actions of one component leave alone
shuffleFrame == <<readerVars, forecastVars, individualVars, loadVars, litVars,
                  stackedVars>>
readerFrame == <<shuffleVars, forecastVars, individualVars, loadVars, litVars,
                 stackedVars>>
forecastFrame == <<shuffleVars, readerVars, individualVars, loadVars, litVars,
                   stackedVars>>
individualFrame == <<shuffleVars, readerVars, loadVars, litVars, stackedVars>>
loadFrame == <<shuffleVars, readerVars, forecastVars, individualVars, litVars,
               stackedVars>>
litFrame == <<shuffleVars, readerVars, forecastVars, individualVars, loadVars,
              stackedVars>>
stackedFrame == <<shuffleVars, readerVars, forecastVars, individualVars, loadVars,
                  litVars>>

(***************************************************************************)
(* Python values shared by the components.                                 *)
(***************************************************************************)
None == "None"

Range(s) == {s[i] : i \in DOMAIN s}

Count(s, v) == Cardinality({i \in DOMAIN s : s[i] = v})

SeqsUpTo(S, n) == UNION {[1..k -> S] : k \in 0..n}

\* every reordering of the list s (the outcomes of random.shuffle(s))
Shuffles(s) == {[i \in 1..Len(s) |-> s[p[i]]] : p \in Permutations(1..Len(s))}

(***************************************************************************)
(* ShuffleIterableDataset                                                  *)
(***************************************************************************)

MaxUpstream == 4
MaxBufferSize == 3
MaxItemKinds == 2

Items == 1..MaxItemKinds

ShuffleIdle ==
  /\ dataset = <<>>
  /\ buffer_size = 0
  /\ buf = <<>>
  /\ consumed = 0
  /\ yielded = <<>>
  /\ shufflePc = "idle"

\* __init__ (assert buffer_size > 0) followed by the first line of __iter__
ShuffleInit ==
  /\ dataset \in SeqsUpTo(Items, MaxUpstream)
  /\ buffer_size \in 1..MaxBufferSize
  /\ buf = <<>>
  /\ consumed = 0
  /\ yielded = <<>>
  /\ shufflePc = "fill"

\* one pass of the body of `for x in self.dataset` that forgets buf[idx] = x
ShuffleTakeNoStore ==
  /\ shufflePc = "fill"
  /\ consumed < Len(dataset)
  /\ LET x == dataset[consumed + 1] IN
       IF Len(buf) = buffer_size
         THEN \E idx \in 0..(buffer_size - 1) :
                /\ yielded' = Append(yielded, buf[idx + 1])
                /\ buf' = buf
         ELSE /\ buf' = Append(buf, x)
              /\ yielded' = yielded
  /\ consumed' = consumed + 1
  /\ UNCHANGED <<dataset, buffer_size, shufflePc, shuffleFrame>>

\* one pass of the body of `for x in self.dataset`
ShuffleTake ==
  /\ shufflePc = "fill"
  /\ consumed < Len(dataset)
  /\ LET x == dataset[consumed + 1] IN
       IF Len(buf) = buffer_size
         THEN \E idx \in 0..(buffer_size - 1) :   \* random.randint(0, buffer_size - 1)
                /\ yielded' = Append(yielded, buf[idx + 1])
                /\ buf' = [buf EXCEPT ![idx + 1] = x]
         ELSE /\ buf' = Append(buf, x)
              /\ yielded' = yielded
  /\ consumed' = consumed + 1
  /\ UNCHANGED <<dataset, buffer_size, shufflePc, shuffleFrame>>

\* the upstream is exhausted: random.shuffle(buf)
ShuffleRest ==
  /\ shufflePc = "fill"
  /\ consumed = Len(dataset)
  /\ buf' \in Shuffles(buf)
  /\ shufflePc' = "drain"
  /\ UNCHANGED <<dataset, buffer_size, consumed, yielded, shuffleFrame>>

\* while buf: yield buf.pop()
ShuffleDrain ==
  /\ shufflePc = "drain"
  /\ buf # <<>>
  /\ yielded' = Append(yielded, buf[Len(buf)])
  /\ buf' = SubSeq(buf, 1, Len(buf) - 1)
  /\ UNCHANGED <<dataset, buffer_size, consumed, shufflePc, shuffleFrame>>

\* buf is empty: the generator returns
ShuffleStop ==
  /\ shufflePc = "drain"
  /\ buf = <<>>
  /\ shufflePc' = "done"
  /\ UNCHANGED <<dataset, buffer_size, buf, consumed, yielded, shuffleFrame>>

ShuffleNext == ShuffleTake \/ ShuffleRest \/ ShuffleDrain \/ ShuffleStop

(***************************************************************************)
(* NpyReader, iterated by every DataLoader worker of every DDP process.    *)
(* A worker process iterates its own copy of the reader; with              *)
(* num_workers = 0 the loader iterates the reader in the process itself    *)
(* and get_worker_info() is None.                                          *)
(***************************************************************************)

MaxFiles == 4
MaxShuffledFiles == 3
MaxWorld == 2
MaxWorkers == 2
MaxNodes == 2

\* an iterator is <<rank of its process, worker id>>; worker id 0 of a loader
\* with num_workers = 0 is the process itself
Iterators ==
  (0..(world_size - 1)) \X (0..((IF num_workers = 0 THEN 1 ELSE num_workers) - 1))

\* the quotient rounded up instead of down
FloorDivCeil(a, b) == (a + b - 1) \div b

\* int(math.floor(a / float(b))) and int(a / b) for a >= 0, b > 0
FloorDiv(a, b) == a \div b

\* worker_id computed without the stride of the process
WorkerIdNoStride(rank, num_workers_per_ddp, id) == rank + id

\* line 61: worker_id = rank * num_workers_per_ddp + worker_info.id
WorkerId(rank, num_workers_per_ddp, id) == rank * num_workers_per_ddp + id

\* lines 38-63 for the iterator it: [exc, iter_start, iter_end]
IterRange(it) ==
  IF num_workers = 0   \* worker_info is None
    THEN [exc |-> None, iter_start |-> 0, iter_end |-> n_files]
    ELSE
      LET rank0 == IF ~initialized THEN 0 ELSE it[1]
          world == IF ~initialized THEN 1 ELSE world_size
      IN
      IF multi_dataset_training /\ NODES = <<>>   \* int(None)
        THEN [exc |-> "TypeError", iter_start |-> 0, iter_end |-> 0]
      ELSE
      IF multi_dataset_training /\ NODES[1] = 0   \* world_size / 0
        THEN [exc |-> "ZeroDivisionError", iter_start |-> 0, iter_end |-> 0]
      ELSE
      LET num_gpus_per_node == IF multi_dataset_training
                                 THEN FloorDiv(world, NODES[1]) ELSE world
          num_shards == num_workers * num_gpus_per_node
      IN
      IF num_shards = 0   \* rank % 0
        THEN [exc |-> "ZeroDivisionError", iter_start |-> 0, iter_end |-> 0]
      ELSE
      LET rank == IF multi_dataset_training THEN rank0 % num_gpus_per_node ELSE rank0
          per_worker == FloorDiv(n_files, num_shards)
          worker_id == WorkerId(rank, num_workers, it[2])
      IN [exc |-> None,
          iter_start |-> worker_id * per_worker,
          iter_end |-> worker_id * per_worker + per_worker]

ReaderIdle ==
  /\ n_files = 0
  /\ shuffle = FALSE
  /\ multi_dataset_training = FALSE
  /\ initialized = FALSE
  /\ world_size = 0
  /\ num_workers = 0
  /\ NODES = <<>>
  /\ file_list = <<>>
  /\ iter_end = <<>>
  /\ read_idx = <<>>
  /\ loaded = <<>>
  /\ readerPc = <<>>

\* the readers after __init__, one copy per iterator, none iterated yet
ReaderInitWith(shuffles, maxFiles) ==
  /\ n_files \in 0..maxFiles
  /\ shuffle \in shuffles
  /\ multi_dataset_training \in BOOLEAN
  /\ initialized \in BOOLEAN
  /\ world_size \in 1..MaxWorld
  /\ ~initialized => world_size = 1
  /\ num_workers \in 0..MaxWorkers
  /\ NODES \in {<<>>} \cup {<<k>> : k \in 0..MaxNodes}
  /\ ~multi_dataset_training => NODES = <<>>
  /\ file_list = [it \in Iterators |-> [i \in 1..n_files |-> i]]
  /\ iter_end = [it \in Iterators |-> 0]
  /\ read_idx = [it \in Iterators |-> 0]
  /\ loaded = [it \in Iterators |-> <<>>]
  /\ readerPc = [it \in Iterators |-> "new"]

readerConfig == <<n_files, shuffle, multi_dataset_training, initialized,
                  world_size, num_workers, NODES>>

\* __iter__ up to the for loop (lines 35-63); an empty range ends the generator
ReaderStart(it) ==
  /\ readerPc[it] = "new"
  /\ \E fl \in (IF shuffle THEN Shuffles(file_list[it]) ELSE {file_list[it]}) :
       file_list' = [file_list EXCEPT ![it] = fl]   \* random.shuffle(self.file_list)
  /\ LET r == IterRange(it) IN
       /\ readerPc' = [readerPc EXCEPT ![it] =
                         IF r.exc # None THEN r.exc
                         ELSE IF r.iter_start < r.iter_end THEN "loop" ELSE "done"]
       /\ read_idx' = [read_idx EXCEPT ![it] = r.iter_start]
       /\ iter_end' = [iter_end EXCEPT ![it] = r.iter_end]
  /\ UNCHANGED <<readerConfig, loaded, readerFrame>>

\* one pass of `for idx in range(iter_start, iter_end)`: path = self.file_list[idx],
\* np.load(path) and the yield; after the last pass the generator returns
ReaderLoad(it) ==
  /\ readerPc[it] = "loop"
  /\ read_idx[it] < iter_end[it]
  /\ IF read_idx[it] + 1 \in DOMAIN file_list[it]
       THEN /\ loaded' = [loaded EXCEPT
                 ![it] = Append(@, <<read_idx[it], file_list[it][read_idx[it] + 1]>>)]
            /\ read_idx' = [read_idx EXCEPT ![it] = @ + 1]
            /\ readerPc' = [readerPc EXCEPT
                 ![it] = IF read_idx[it] + 1 < iter_end[it] THEN "loop" ELSE "done"]
       ELSE /\ readerPc' = [readerPc EXCEPT ![it] = "IndexError"]
            /\ UNCHANGED <<loaded, read_idx>>
  /\ UNCHANGED <<readerConfig, file_list, iter_end, readerFrame>>

ReaderNext ==
  \/ \E it \in Iterators : ReaderStart(it)
  \/ \E it \in Iterators : ReaderLoad(it)

LoadedIdx(it) == {loaded[it][j][1] : j \in DOMAIN loaded[it]}

LoadedFiles(it) == {loaded[it][j][2] : j \in DOMAIN loaded[it]}

(***************************************************************************)
(* Forecast.  A frame of a file is named by its time index 0..T-1; the     *)
(* model tracks which source frame every element of the yielded tensors is.*)
(***************************************************************************)
MaxTimeSteps == 5
MaxHistory == 2
MaxWindow == 2
MaxPredRange == 2
MaxNegPredRange == 1
MaxHrsEachStep == 2

ForecastIdle ==
  /\ random_lead_time = FALSE
  /\ min_pred_range = 0
  /\ max_pred_range = 0
  /\ hrs_each_step = 0
  /\ history = 0
  /\ window = 0
  /\ time_steps = 0
  /\ inp_data = <<>>
  /\ out_data = <<>>
  /\ predict_ranges = <<>>
  /\ output_ids = <<>>
  /\ lead_times = <<>>
  /\ forecastPc = "idle"

\* the arguments of Forecast(...)
ForecastInit ==
  /\ random_lead_time \in BOOLEAN
  /\ min_pred_range \in (-MaxNegPredRange)..MaxPredRange
  /\ max_pred_range \in (-MaxNegPredRange)..MaxPredRange
  /\ hrs_each_step \in 1..MaxHrsEachStep
  /\ history \in 1..MaxHistory
  /\ window \in 1..MaxWindow
  /\ time_steps = 0
  /\ inp_data = <<>>
  /\ out_data = <<>>
  /\ predict_ranges = <<>>
  /\ output_ids = <<>>
  /\ lead_times = <<>>
  /\ forecastPc = "args"

forecastArgs == <<random_lead_time, min_pred_range, max_pred_range, hrs_each_step,
                  history, window>>

\* Forecast.__init__ (lines 86-94)
ForecastNew ==
  /\ forecastPc = "args"
  /\ forecastPc' = IF ~random_lead_time /\ min_pred_range # max_pred_range
                     THEN "AssertionError" ELSE "ready"
  /\ UNCHANGED <<forecastArgs, time_steps, inp_data, out_data, predict_ranges,
                 output_ids, lead_times, forecastFrame>>

\* a roll in the opposite direction
RollSourceForward(n, shift, j) == (j + shift) % n

\* tensor.roll(shift, dims=0) of a tensor of n frames: the source position of
\* the frame at position j of the result
RollSource(n, shift, j) == (j - shift) % n

\* the stop of the Python slice [:stop] over a dimension of length n
SliceStop(n, stop) == IF stop < 0 THEN (IF n + stop > 0 THEN n + stop ELSE 0)
                      ELSE (IF stop < n THEN stop ELSE n)

\* last_idx that forgets the frames the history needs
LastIdxNoHistory(h, w, maxp) == -maxp

\* line 112: last_idx = -((self.history - 1) * self.window + self.max_pred_range)
LastIdx(h, w, maxp) == -((h - 1) * w + maxp)

\* tensor[i] for an index tensor element i over n frames: the source frame,
\* or -1 for the IndexError of an index outside -n..n-1
TensorIndex(n, i) == IF 0 <= i /\ i < n THEN i
                     ELSE IF -n <= i /\ i < 0 THEN n + i
                     ELSE -1

\* the outcomes of torch.randint(low, high, size=(n,)) / of torch.ones(n) * max
PredictRanges(n) ==
  IF random_lead_time
    THEN [1..n -> min_pred_range..max_pred_range]
    ELSE {[i \in 1..n |-> max_pred_range]}

\* one pass of `for inp_data, out_data, ... in self.dataset` (lines 97-135) on a
\* file of T time steps.  A pass keeps nothing of the pass before it (every
\* local is computed anew from the file), so the model follows one file.
ForecastIter ==
  /\ forecastPc = "ready"
  /\ \E T \in 0..MaxTimeSteps :
       LET last_idx == LastIdx(history, window, max_pred_range)
           inp_data_len == SliceStop(T, last_idx)
           \* inp_data[k][t] rolled by -t * window, cut at last_idx, transposed
           inp == [i \in 1..inp_data_len |->
                    [t \in 1..history |-> RollSource(T, -(t - 1) * window, i - 1)]]
       IN
       /\ time_steps' = T
       /\ IF random_lead_time /\ min_pred_range > max_pred_range
            THEN \* torch.randint: low must be less than high
                 /\ forecastPc' = "RuntimeError"
                 /\ UNCHANGED <<inp_data, out_data, predict_ranges, output_ids,
                                lead_times>>
            ELSE \E pr \in PredictRanges(inp_data_len) :
                   LET ids == [i \in 1..inp_data_len |->
                                (i - 1) + (history - 1) * window + pr[i]]
                   IN
                   /\ predict_ranges' = pr
                   /\ output_ids' = ids
                   /\ IF \E i \in 1..inp_data_len : TensorIndex(T, ids[i]) = -1
                        THEN /\ forecastPc' = "IndexError"
                             /\ UNCHANGED <<inp_data, out_data, lead_times>>
                        ELSE /\ forecastPc' = "yielded"
                             /\ inp_data' = inp
                             /\ out_data' = [i \in 1..inp_data_len |->
                                               TensorIndex(T, ids[i])]
                             /\ lead_times' = [i \in 1..inp_data_len |->
                                                 hrs_each_step * pr[i]]
  /\ UNCHANGED <<forecastArgs, forecastFrame>>

ForecastNext == ForecastNew \/ ForecastIter

(***************************************************************************)
(* IndividualDataIter: cuts the item Forecast yields for a file into       *)
(* samples, one every `subsample` windows.                                 *)
(***************************************************************************)

MaxSubsample == 3

IndividualIdle ==
  /\ data_transforms = None
  /\ output_transforms = None
  /\ subsample = 0
  /\ samples = <<>>
  /\ individualPc = "idle"

\* IndividualDataIter(dataset, transforms, output_transforms, subsample)
IndividualInit ==
  /\ data_transforms \in {None, "transforms"}
  /\ output_transforms \in {None, "output_transforms"}
  /\ subsample \in 0..MaxSubsample
  /\ samples = <<>>
  /\ individualPc = "ready"

individualArgs == <<data_transforms, output_transforms, subsample>>

\* every window instead of every step-th one
RangeEvery(n, step) == [j \in 1..n |-> j - 1]

\* list(range(0, n, step)) for step >= 1
RangeStep(n, step) == [j \in 1..((n + step - 1) \div step) |-> (j - 1) * step]

\* self.transforms[k](x[k]) when transforms is not None (by is its name), else
\* x[k] itself (by is None)
Transformed(by, x) == [by |-> by, of |-> x]

\* one pass of `for inp, out, lead_times, ... in self.dataset` (lines 153-174):
\* an exception of Forecast.__iter__ passes through; otherwise the three
\* assertions and the samples of the item.  Every variable of the file goes
\* through the same slice and the same output_ids, so the shapes of the item
\* are those of inp_data and out_data.
IndividualIter ==
  /\ individualPc = "ready"
  /\ forecastPc \in {"yielded", "IndexError", "RuntimeError"}
  /\ IF forecastPc # "yielded"
       THEN /\ individualPc' = forecastPc
            /\ UNCHANGED samples
       ELSE
         LET inp_shapes == {Len(inp_data)}
             out_shapes == {Len(out_data)}
             inp_len == CHOOSE n \in inp_shapes : TRUE
             out_len == CHOOSE n \in out_shapes : TRUE
         IN
         IF \/ Cardinality(inp_shapes) # 1
            \/ Cardinality(out_shapes) # 1
            \/ inp_len # out_len
           THEN /\ individualPc' = "AssertionError"
                /\ UNCHANGED samples
         ELSE IF subsample = 0   \* range() arg 3 must not be zero
           THEN /\ individualPc' = "ValueError"
                /\ UNCHANGED samples
         ELSE
           LET is == RangeStep(inp_len, subsample) IN
           /\ samples' = [j \in 1..Len(is) |->
                            [x |-> Transformed(data_transforms, inp_data[is[j] + 1]),
                             y |-> Transformed(output_transforms, out_data[is[j] + 1]),
                             lead_time |-> lead_times[is[j] + 1]]]
           /\ individualPc' = "done"
  /\ UNCHANGED <<individualArgs, forecastVars, individualFrame>>

IndividualNext == ForecastNew \/ ForecastIter \/ IndividualIter

(***************************************************************************)
(* climate_learn/__init__.py: _validate_model_kwargs, _load_optimizer and  *)
(* the two loaders.  Python objects are named by strings; None is "None".  *)
(***************************************************************************)
\* how a name is spelt, in pieces no smaller than the tests of the code need
Spelling(name) ==
  CASE name = "" -> <<>>
    [] name = "SGD" -> <<"SGD">>
    [] name = "Adam" -> <<"Adam">>
    [] name = "AdamW" -> <<"Adam", "W">>
    [] name = "CosineAnnealingLR" -> <<"CosineAnnealingLR">>
    [] name = "SGDCosineAnnealingLR" -> <<"SGD", "CosineAnnealingLR">>
    [] name = "AdamWCosineAnnealingLR" -> <<"Adam", "W", "CosineAnnealingLR">>
    [] name = "interpolation" -> <<"interpolation">>
    [] name = "bilinear_interpolation" -> <<"bilinear", "_", "interpolation">>
    [] OTHER -> <<name>>

\* str.startswith and str.endswith
StartsWith(name, prefix) ==
  LET n == Spelling(name)
      q == Spelling(prefix)
  IN Len(q) <= Len(n) /\ SubSeq(n, 1, Len(q)) = q

EndsWith(name, suffix) ==
  LET n == Spelling(name)
      q == Spelling(suffix)
  IN Len(q) <= Len(n) /\ SubSeq(n, Len(n) - Len(q) + 1, Len(n)) = q

\* name.split("_")[0]
SplitFirst(name) ==
  LET n == Spelling(name) IN
  IF \E i \in DOMAIN n : n[i] = "_"
    THEN n[(CHOOSE i \in DOMAIN n : n[i] = "_" /\ \A j \in 1..(i - 1) : n[j] # "_") - 1]
    ELSE name

\* bool(x) of None, a str, a dict or an nn.Module
Truthy(x) == x \notin {None, "", "{}"}

ModelNames == {"", "climatology", "persistence", "linear-regression",
               "rasp-theurey-2020", "bilinear_interpolation", "unet"}

OptimNames == {"", "SGD", "Adam", "AdamW", "SGDCosineAnnealingLR",
               "AdamWCosineAnnealingLR", "lion"}

KwargsValues == {None, "{}", "{kwargs}"}

UserNets == {"user_net", "user_net_without_parameters"}

\* _validate_model_kwargs that takes the preset whenever it is not None
ValidateModelKwargsPresetNotNone(a_preset, a_model, a_model_kwargs, a_net) ==
  IF a_preset = None /\ a_model = None /\ a_net = None
    THEN [exc |-> "RuntimeError", ret |-> None, warnings |-> <<>>]
    ELSE [exc |-> None,
          ret |-> IF a_preset # None THEN a_preset ELSE a_model,
          warnings |-> <<>>]

\* _validate_model_kwargs (lines 204-220): [exc, ret, warnings]
ValidateModelKwargs(a_preset, a_model, a_model_kwargs, a_net) ==
  IF a_preset = None /\ a_model = None /\ a_net = None
    THEN [exc |-> "RuntimeError", ret |-> None, warnings |-> <<>>]
    ELSE
      LET m == IF Truthy(a_preset) THEN a_preset ELSE a_model
          w1 == IF Truthy(a_preset) /\ a_model # None
                  THEN <<"Ignoring 'model'">> ELSE <<>>
          w2 == IF Truthy(m) /\ Truthy(a_net)
                  THEN <<"Ignoring 'net'">> ELSE <<>>
          w3 == IF Truthy(a_net) /\ Truthy(a_model_kwargs)
                  THEN <<"Ignoring 'model_kwargs'">> ELSE <<>>
      IN [exc |-> None, ret |-> m, warnings |-> w1 \o w2 \o w3]

\* the dict _load_optimizer returns for a ...CosineAnnealingLR optim
WithScheduler(opt) ==
  CASE opt = "SGD" -> "{optimizer: SGD, lr_scheduler: LinearWarmupCosineAnnealingLR}"
    [] opt = "Adam" -> "{optimizer: Adam, lr_scheduler: LinearWarmupCosineAnnealingLR}"
    [] opt = "AdamW" -> "{optimizer: AdamW, lr_scheduler: LinearWarmupCosineAnnealingLR}"
    [] OTHER -> "{optimizer: user, lr_scheduler: LinearWarmupCosineAnnealingLR}"

\* _load_optimizer (lines 222-262) for a net that has parameters or not:
\* [exc, ret, warnings]
LoadOptimizer(a_net, has_parameters, a_optim, a_optim_kwargs, a_lr_kwargs, a_optimizer) ==
  IF a_net = None   \* None.parameters()
    THEN [exc |-> "AttributeError", ret |-> None, warnings |-> <<>>]
  ELSE IF ~has_parameters
    THEN [exc |-> None, ret |-> None,
          warnings |-> <<"Net has no trainable parameters">>]
  ELSE IF a_optim # None /\ a_optimizer # None
    THEN [exc |-> "RuntimeError", ret |-> None, warnings |-> <<>>]
  ELSE
    LET w1 == IF Truthy(a_optim) /\ Truthy(a_optimizer)
                THEN <<"Ignoring 'optimizer'">> ELSE <<>>
        w2 == IF Truthy(a_optimizer) /\ Truthy(a_optim_kwargs)
                THEN <<"Ignoring 'optim_kwargs'">> ELSE <<>>
        w3 == IF Truthy(a_lr_kwargs) /\ Truthy(a_optimizer)
                THEN <<"Ignoring 'lr_kwargs'">> ELSE <<>>
        w == w1 \o w2 \o w3
    IN
    IF a_optim = None   \* None.startswith("SGD")
      THEN [exc |-> "AttributeError", ret |-> None, warnings |-> w]
    ELSE
      LET built == IF StartsWith(a_optim, "SGD") THEN "SGD"
                   ELSE IF StartsWith(a_optim, "Adam") THEN "Adam"
                   ELSE IF StartsWith(a_optim, "AdamW") THEN "AdamW"
                   ELSE None
      IN
      IF built = None   \* elif optim is not None: raise
        THEN [exc |-> "NotImplementedError", ret |-> None, warnings |-> w]
        ELSE [exc |-> None,
              ret |-> IF EndsWith(a_optim, "CosineAnnealingLR")
                        THEN WithScheduler(built) ELSE built,
              warnings |-> w]

\* whether list(net.parameters()) can be non-empty: Climatology keeps a plain
\* tensor and Interpolation keeps none; the other hub classes are not known
HasParameters(a_net) ==
  CASE a_net = "user_net" -> {TRUE}
    [] a_net \in {"user_net_without_parameters", "Climatology(train_climatology)",
                  "Interpolation(size, bilinear)"} -> {FALSE}
    [] OTHER -> BOOLEAN

LoadIdle ==
  /\ loader = "idle"
  /\ preset = None /\ model_arg = None /\ model = None /\ model_kwargs = None
  /\ net_arg = None /\ net = None
  /\ MODEL_REGISTRY = {}
  /\ out_in_subset = FALSE
  /\ optim = None /\ optim_kwargs = None /\ lr_kwargs = None
  /\ optimizer_arg = None /\ optimizer = None
  /\ train_loss = None /\ val_loss = None /\ test_loss = None
  /\ warned = <<>>
  /\ constructed = <<>>
  /\ model_module = <<>>
  /\ loadExc = None
  /\ loadPc = "idle"

\* the state a call starts in: the locals hold the arguments
LoadEntry ==
  /\ model = model_arg
  /\ net = net_arg
  /\ optimizer = optimizer_arg
  /\ warned = <<>>
  /\ constructed = <<>>
  /\ model_module = <<>>
  /\ loadExc = None

\* line 45 / line 141: model = _validate_model_kwargs(preset, model, model_kwargs, net)
LoadValidate ==
  /\ loadPc = "start"
  /\ LET r == ValidateModelKwargs(preset, model, model_kwargs, net) IN
       /\ warned' = warned \o r.warnings
       /\ loadExc' = r.exc
       /\ model' = IF r.exc = None THEN r.ret ELSE model
       /\ loadPc' = IF r.exc = None THEN "validated" ELSE "raised"
  /\ UNCHANGED <<loadArgs, net, optimizer, train_loss, val_loss, test_loss,
                 constructed, model_module, loadFrame>>

\* the outcome of `if model:` in load_forecasting_module (lines 46-83)
ForecastingNet ==
  IF model \notin MODEL_REGISTRY
    THEN [exc |-> "NotImplementedError", net |-> net]
  ELSE IF model = "climatology"
    THEN [exc |-> None, net |-> "Climatology(train_climatology)"]
  ELSE IF model = "persistence"
    THEN IF ~out_in_subset
           THEN [exc |-> "RuntimeError", net |-> net]
           ELSE [exc |-> None, net |-> "Persistence()"]
  ELSE IF model = "linear-regression"
    THEN [exc |-> None, net |-> "LinearRegression(in_features, out_features)"]
  ELSE IF model = "rasp-theurey-2020"
    THEN [exc |-> None, net |-> "ResNet(history=3, n_blocks=19)"]
  ELSE [exc |-> None, net |-> net]

\* the outcome of `if model:` in load_downscaling_module (lines 142-155)
DownscalingNet ==
  IF model \notin MODEL_REGISTRY
    THEN [exc |-> "NotImplementedError", net |-> net]
  ELSE IF EndsWith(model, "interpolation")
    THEN [exc |-> None,
          net |-> IF SplitFirst(model) = "bilinear"
                    THEN "Interpolation(size, bilinear)"
                    ELSE "Interpolation(size, other)"]
  ELSE [exc |-> None, net |-> net]

\* a loader that takes an unregistered model for a supplied net
LoadBuildNetNoLookup ==
  /\ loadPc = "validated"
  /\ loadPc' = "net"
  /\ UNCHANGED <<loadArgs, model, net, optimizer, train_loss, val_loss, test_loss,
                 warned, constructed, model_module, loadExc, loadFrame>>

\* lines 46-83 / lines 142-155: look the model up and build the net
LoadBuildNet ==
  /\ loadPc = "validated"
  /\ LET r == IF ~Truthy(model) THEN [exc |-> None, net |-> net]
              ELSE IF loader = "forecasting" THEN ForecastingNet
              ELSE DownscalingNet
     IN
       /\ loadExc' = r.exc
       /\ net' = r.net
       /\ loadPc' = IF r.exc = None THEN "net" ELSE "raised"
  /\ UNCHANGED <<loadArgs, model, optimizer, train_loss, val_loss, test_loss,
                 warned, constructed, model_module, loadFrame>>

\* line 84 / line 156: optimizer = _load_optimizer(net, optim, optim_kwargs, lr_kwargs, optimizer)
LoadOptimizerCall ==
  /\ loadPc = "net"
  /\ \E has_parameters \in HasParameters(net) :
       LET r == LoadOptimizer(net, has_parameters, optim, optim_kwargs, lr_kwargs,
                              optimizer)
       IN
       /\ warned' = warned \o r.warnings
       /\ loadExc' = r.exc
       /\ optimizer' = IF r.exc = None THEN r.ret ELSE optimizer
       /\ constructed' = IF r.exc = None /\ r.ret \notin {None, optimizer_arg}
                           THEN Append(constructed, "optimizer") ELSE constructed
       /\ loadPc' = IF r.exc = None THEN "optimizer" ELSE "raised"
  /\ UNCHANGED <<loadArgs, model, net, train_loss, val_loss, test_loss,
                 model_module, loadFrame>>

\* the loss lists the loaders build when none is passed
DefaultLoss(which) ==
  IF loader = "forecasting"
    THEN CASE which = "train" -> "[LatWeightedMSE(train)]"
           [] which = "val" ->
                "[LatWeightedMSE(val), LatWeightedRMSE(val), Denormalized(LatWeightedACC(val))]"
           [] which = "test" ->
                "[LatWeightedRMSE(test), Denormalized(LatWeightedACC(test))]"
    ELSE CASE which = "train" -> "[MSE(train)]"
           [] which = "val" ->
                "[RMSE(val), Denormalized(Pearson(val)), Denormalized(MeanBias(val))]"
           [] which = "test" ->
                "[RMSE(test), Denormalized(Pearson(test)), Denormalized(MeanBias(test))]"

\* lines 85-121 / lines 157-200: the default losses
LoadLosses ==
  /\ loadPc = "optimizer"
  /\ train_loss' = IF train_loss = None THEN DefaultLoss("train") ELSE train_loss
  /\ val_loss' = IF val_loss = None THEN DefaultLoss("val") ELSE val_loss
  /\ test_loss' = IF test_loss = None THEN DefaultLoss("test") ELSE test_loss
  /\ constructed' = constructed
                      \o (IF train_loss = None THEN <<"train_loss">> ELSE <<>>)
                      \o (IF val_loss = None THEN <<"val_loss">> ELSE <<>>)
                      \o (IF test_loss = None THEN <<"test_loss">> ELSE <<>>)
  /\ loadPc' = "losses"
  /\ UNCHANGED <<loadArgs, model, net, optimizer, warned, model_module, loadExc,
                 loadFrame>>

\* the parameters of LitModule.__init__ after self (module.py lines 17-25) and
\* how many of them have no default
LitModuleParams == <<"net", "optimizer", "lr_scheduler", "train_loss", "val_loss",
                     "test_loss", "train_target_transform", "val_target_transforms",
                     "test_target_transforms">>

LitModuleRequired == 6

\* Python's binding of positional arguments to LitModuleParams:
\* <<>> for the TypeError of a missing or surplus argument, else <<the binding>>
BindLitModule(args) ==
  IF Len(args) < LitModuleRequired \/ Len(args) > Len(LitModuleParams)
    THEN <<>>
    ELSE <<[i \in 1..Len(LitModuleParams) |->
             IF i <= Len(args) THEN args[i] ELSE None]>>

\* line 122 / line 201: model_module = LitModule(net, optimizer, train_loss,
\* val_loss, test_loss), and the return
LoadLitModule ==
  /\ loadPc = "losses"
  /\ LET bound == BindLitModule(<<net, optimizer, train_loss, val_loss, test_loss>>) IN
       IF bound = <<>>
         THEN /\ loadExc' = "TypeError"
              /\ loadPc' = "raised"
              /\ UNCHANGED <<constructed, model_module>>
         ELSE /\ model_module' = bound
              /\ constructed' = Append(constructed, "LitModule")
              /\ loadPc' = "returned"
              /\ loadExc' = loadExc
  /\ UNCHANGED <<loadArgs, model, net, optimizer, train_loss, val_loss, test_loss,
                 warned, loadFrame>>

LoadNext ==
  LoadValidate \/ LoadBuildNet \/ LoadOptimizerCall \/ LoadLosses \/ LoadLitModule

(***************************************************************************)
(* LitModule (models/module.py).  A loss function is named by its place in *)
(* its list, a transform by a string; transform t applied to the pair      *)
(* (yhat, y) of a batch is named t, the untransformed pair "None".         *)
(***************************************************************************)
MaxLosses == 2
MaxTransforms == 2
MaxBatches == 2
MaxNIters == 1
MaxSteps == 2

LossLists == {[i \in 1..n |-> i] : n \in 0..MaxLosses}

\* the lists [t_1 or None, ..., t_n or None]
TransformLists ==
  UNION {{[i \in 1..n |-> IF i \in on THEN <<"transform", i>> ELSE <<None>>] :
            on \in SUBSET (1..n)} : n \in 0..MaxTransforms}

Untransformed == <<None>>

NoStep == [method |-> "none", evaluated |-> <<>>, batch |-> 0, exc |-> None,
           loss_inputs |-> <<>>]

LitIdle ==
  /\ new_val_loss = <<>> /\ new_test_loss = <<>>
  /\ new_val_target_transforms = <<>> /\ new_test_target_transforms = <<>>
  /\ lit_val_loss = <<>> /\ lit_test_loss = <<>>
  /\ lit_val_target_transforms = <<>> /\ lit_test_target_transforms = <<>>
  /\ lit_mode = <<>>
  /\ lit_n_iters = <<>>
  /\ last_step = NoStep
  /\ n_steps = 0
  /\ litPc = "idle"

\* the arguments of LitModule(...)
LitInit ==
  /\ new_val_loss \in LossLists
  /\ new_test_loss \in LossLists
  /\ new_val_target_transforms \in {<<>>} \cup {<<l>> : l \in TransformLists}
  /\ new_test_target_transforms \in {<<>>} \cup {<<l>> : l \in TransformLists}
  /\ lit_val_loss = <<>> /\ lit_test_loss = <<>>
  /\ lit_val_target_transforms = <<>> /\ lit_test_target_transforms = <<>>
  /\ lit_mode = <<>>
  /\ lit_n_iters = <<>>
  /\ last_step = NoStep
  /\ n_steps = 0
  /\ litPc = "args"

\* __init__ that checks both transform lists against val_loss
LitNewChecksValLossOnly ==
  /\ litPc = "args"
  /\ IF \/ new_val_target_transforms # <<>>
          /\ Len(new_val_loss) # Len(new_val_target_transforms[1])
        \/ new_test_target_transforms # <<>>
          /\ Len(new_val_loss) # Len(new_test_target_transforms[1])
       THEN /\ litPc' = "RuntimeError"
            /\ UNCHANGED litFields
       ELSE /\ lit_val_loss' = new_val_loss
            /\ lit_test_loss' = new_test_loss
            /\ lit_val_target_transforms' = new_val_target_transforms
            /\ lit_test_target_transforms' = new_test_target_transforms
            /\ lit_mode' = <<"direct">>
            /\ lit_n_iters' = lit_n_iters
            /\ litPc' = "constructed"
  /\ UNCHANGED <<litArgs, last_step, n_steps, litFrame>>

\* LitModule.__init__ (lines 27-51); no module exists after a raise
LitNew ==
  /\ litPc = "args"
  /\ IF \/ new_val_target_transforms # <<>>
          /\ Len(new_val_loss) # Len(new_val_target_transforms[1])
        \/ new_test_target_transforms # <<>>
          /\ Len(new_test_loss) # Len(new_test_target_transforms[1])
       THEN /\ litPc' = "RuntimeError"
            /\ UNCHANGED litFields
       ELSE /\ lit_val_loss' = new_val_loss
            /\ lit_test_loss' = new_test_loss
            /\ lit_val_target_transforms' = new_val_target_transforms
            /\ lit_test_target_transforms' = new_test_target_transforms
            /\ lit_mode' = <<"direct">>
            /\ lit_n_iters' = lit_n_iters
            /\ litPc' = "constructed"
  /\ UNCHANGED <<litArgs, last_step, n_steps, litFrame>>

\* set_mode (lines 53-54)
LitSetMode ==
  /\ litPc = "constructed"
  /\ \E mode \in {"direct", "iter", "other"} : lit_mode' = <<mode>>
  /\ UNCHANGED <<litArgs, lit_val_loss, lit_test_loss, lit_val_target_transforms,
                 lit_test_target_transforms, lit_n_iters, last_step, n_steps, litPc,
                 litFrame>>

\* set_n_iters (lines 56-57)
LitSetNIters ==
  /\ litPc = "constructed"
  /\ \E iters \in 0..MaxNIters : lit_n_iters' = <<iters>>
  /\ UNCHANGED <<litArgs, lit_val_loss, lit_test_loss, lit_val_target_transforms,
                 lit_test_target_transforms, lit_mode, last_step, n_steps, litPc,
                 litFrame>>

\* the loop `for i, lf in enumerate(loss_fns)` of evaluate (lines 139-156) from
\* index i on: local is the value of the locals yhat_ and y_ ("unbound" before
\* their first assignment), done the inputs of the losses computed so far
RECURSIVE LossLoop(_, _, _, _, _)
LossLoop(loss_fns, transforms, i, local, done) ==
  IF i > Len(loss_fns)
    THEN [exc |-> None, loss_inputs |-> done]
  ELSE IF transforms # <<>> /\ i \notin DOMAIN transforms[1]
    THEN [exc |-> "IndexError", loss_inputs |-> done]
  ELSE
    LET now == IF transforms # <<>> /\ transforms[1][i] # <<None>>
                 THEN transforms[1][i]   \* yhat_ = transforms[i](yhat); y_ = ...
                 ELSE local
    IN IF now = <<"unbound">>   \* yhat_.shape / lf(yhat_, y_)
         THEN [exc |-> "UnboundLocalError", loss_inputs |-> done]
         ELSE LossLoop(loss_fns, transforms, i + 1, now, Append(done, now))

\* evaluate(batch, stage) (lines 124-164): [exc, loss_inputs]
Evaluate(stage) ==
  IF stage = "val"
    THEN LossLoop(lit_val_loss, lit_val_target_transforms, 1, <<"unbound">>, <<>>)
  ELSE IF stage = "test"
    THEN LossLoop(lit_test_loss, lit_test_target_transforms, 1, <<"unbound">>, <<>>)
  ELSE [exc |-> "RuntimeError", loss_inputs |-> <<>>]

\* evaluate_iter(batch, n_iters, stage) (lines 166-210): self(x_iter) calls
\* forward without in_variables, and without a pass of the loop yhat_iter is
\* not bound at line 179
EvaluateIter(n_iters, stage) ==
  IF n_iters >= 1
    THEN [exc |-> "TypeError", loss_inputs |-> <<>>]
    ELSE [exc |-> "UnboundLocalError", loss_inputs |-> <<>>]

\* validation_step (lines 107-112)
LitValidationStep ==
  /\ litPc = "constructed"
  /\ n_steps < MaxSteps
  /\ \E batch \in 1..MaxBatches :
       LET r == Evaluate("val") IN
       last_step' = [method |-> "validation_step", evaluated |-> <<"evaluate">>,
                     batch |-> batch, exc |-> r.exc, loss_inputs |-> r.loss_inputs]
  /\ n_steps' = n_steps + 1
  /\ UNCHANGED <<litArgs, litFields, litPc, litFrame>>

\* test_step (lines 114-122)
LitTestStep ==
  /\ litPc = "constructed"
  /\ n_steps < MaxSteps
  /\ \E batch \in 1..MaxBatches :
       LET direct == IF lit_mode = <<"direct">>
                       THEN [r |-> Evaluate("test"), evaluated |-> <<"evaluate">>]
                       ELSE [r |-> [exc |-> None, loss_inputs |-> <<>>],
                             evaluated |-> <<>>]
           iter == IF direct.r.exc # None \/ lit_mode # <<"iter">>
                     THEN direct
                   ELSE IF lit_n_iters = <<>>   \* self.n_iters is not set
                     THEN [r |-> [exc |-> "AttributeError", loss_inputs |-> <<>>],
                           evaluated |-> direct.evaluated]
                   ELSE [r |-> EvaluateIter(lit_n_iters[1], "test"),
                         evaluated |-> Append(direct.evaluated, "evaluate_iter")]
       IN last_step' = [method |-> "test_step", evaluated |-> iter.evaluated,
                        batch |-> batch, exc |-> iter.r.exc,
                        loss_inputs |-> iter.r.loss_inputs]
  /\ n_steps' = n_steps + 1
  /\ UNCHANGED <<litArgs, litFields, litPc, litFrame>>

LitNext == LitNew \/ LitSetMode \/ LitSetNIters \/ LitValidationStep \/ LitTestStep

(***************************************************************************)
(* StackedClimateDatasetArgs.  A child ClimateDatasetArgs is named by a    *)
(* number; the same child may stand at several places of the sequence.     *)
(* The setup of a child returns and does not touch the stacked args.       *)
(***************************************************************************)
MaxChildren == 3
MaxChildKinds == 2
MaxModuleArgs == 2
MaxSetups == 2

StackedIdle ==
  /\ data_args = <<>>
  /\ child_data_args = <<>>
  /\ data_module_args = 0
  /\ setup_pos = 0
  /\ child_setups = <<>>
  /\ n_setups = 0
  /\ stackedPc = "idle"

\* the argument of StackedClimateDatasetArgs(data_args)
StackedInit ==
  /\ data_args \in SeqsUpTo(1..MaxChildKinds, MaxChildren)
  /\ child_data_args = <<>>
  /\ data_module_args = 0
  /\ setup_pos = 0
  /\ child_setups = <<>>
  /\ n_setups = 0
  /\ stackedPc = "args"

\* __init__ (lines 15-16)
StackedNew ==
  /\ stackedPc = "args"
  /\ child_data_args' = data_args
  /\ stackedPc' = "constructed"
  /\ UNCHANGED <<data_args, data_module_args, setup_pos, child_setups, n_setups,
                 stackedFrame>>

\* setup is called (line 18); a loop over no children returns at once
StackedSetup ==
  /\ stackedPc = "constructed"
  /\ n_setups < MaxSetups
  /\ \E dma \in 1..MaxModuleArgs : data_module_args' = dma
  /\ setup_pos' = 0
  /\ child_setups' = <<>>
  /\ n_setups' = n_setups + 1
  /\ stackedPc' = IF child_data_args = <<>> THEN "constructed" ELSE "setup"
  /\ UNCHANGED <<data_args, child_data_args, stackedFrame>>

\* a loop that returns after the setup of the first child
StackedSetupChildThenReturn ==
  /\ stackedPc = "setup"
  /\ setup_pos < Len(child_data_args)
  /\ child_setups' = Append(child_setups,
                            <<child_data_args[setup_pos + 1], data_module_args>>)
  /\ setup_pos' = setup_pos + 1
  /\ stackedPc' = "constructed"
  /\ UNCHANGED <<data_args, child_data_args, data_module_args, n_setups,
                 stackedFrame>>

\* one pass of `for data_args in self.child_data_args` (lines 19-20); setup
\* returns after the last pass
StackedSetupChild ==
  /\ stackedPc = "setup"
  /\ setup_pos < Len(child_data_args)
  /\ child_setups' = Append(child_setups,
                            <<child_data_args[setup_pos + 1], data_module_args>>)
  /\ setup_pos' = setup_pos + 1
  /\ stackedPc' = IF setup_pos + 1 < Len(child_data_args) THEN "setup"
                  ELSE "constructed"
  /\ UNCHANGED <<data_args, child_data_args, data_module_args, n_setups,
                 stackedFrame>>

StackedNext == StackedNew \/ StackedSetup \/ StackedSetupChild

(***************************************************************************)
(* Specifications: one per component.                                      *)
(***************************************************************************)
InitShuffle ==
  ShuffleInit /\ ReaderIdle /\ ForecastIdle /\ IndividualIdle
     /\ LoadIdle /\ LitIdle /\ StackedIdle

SpecShuffle == InitShuffle /\ [][ShuffleNext]_vars

\* readers constructed with shuffle=False
InitReader ==
  /\ ReaderInitWith({FALSE}, MaxFiles)
  /\ ShuffleIdle /\ ForecastIdle /\ IndividualIdle /\ LoadIdle /\ LitIdle /\ StackedIdle

SpecReader == InitReader /\ [][ReaderNext]_vars

\* readers constructed with shuffle=True
InitShuffledReader ==
  /\ ReaderInitWith({TRUE}, MaxShuffledFiles)
  /\ ShuffleIdle /\ ForecastIdle /\ IndividualIdle /\ LoadIdle /\ LitIdle /\ StackedIdle

SpecShuffledReader == InitShuffledReader /\ [][ReaderNext]_vars

InitForecast ==
  /\ ForecastInit /\ IndividualIdle
  /\ ShuffleIdle /\ ReaderIdle /\ LoadIdle /\ LitIdle /\ StackedIdle

SpecForecast == InitForecast /\ [][ForecastNext]_vars

\* Forecast wrapped in IndividualDataIter
InitIndividual ==
  /\ ForecastInit /\ IndividualInit
  /\ ShuffleIdle /\ ReaderIdle /\ LoadIdle /\ LitIdle /\ StackedIdle

SpecIndividual == InitIndividual /\ [][IndividualNext]_vars

otherIdleOfLoad == ShuffleIdle /\ ReaderIdle /\ ForecastIdle /\ IndividualIdle
                   /\ LitIdle /\ StackedIdle

\* _validate_model_kwargs on every combination of its arguments
InitValidate ==
  /\ loader \in {"forecasting", "downscaling"}
  /\ preset \in {None} \cup ModelNames
  /\ model_arg \in {None} \cup ModelNames
  /\ model_kwargs \in KwargsValues
  /\ net_arg \in {None} \cup UserNets
  /\ MODEL_REGISTRY = {}
  /\ out_in_subset = FALSE
  /\ optim = None /\ optim_kwargs = None /\ lr_kwargs = None /\ optimizer_arg = None
  /\ train_loss = None /\ val_loss = None /\ test_loss = None
  /\ LoadEntry
  /\ loadPc = "start"
  /\ otherIdleOfLoad

SpecValidate == InitValidate /\ [][LoadValidate]_vars

\* _load_optimizer on every combination of its arguments
InitOptimizer ==
  /\ loader \in {"forecasting", "downscaling"}
  /\ preset = None /\ model_arg = None /\ model_kwargs = None
  /\ net_arg \in {None} \cup UserNets
  /\ MODEL_REGISTRY = {}
  /\ out_in_subset = FALSE
  /\ optim \in {None} \cup OptimNames
  /\ optim_kwargs \in KwargsValues
  /\ lr_kwargs \in KwargsValues
  /\ optimizer_arg \in {None, "user_optimizer"}
  /\ train_loss = None /\ val_loss = None /\ test_loss = None
  /\ LoadEntry
  /\ loadPc = "net"
  /\ otherIdleOfLoad

SpecOptimizer == InitOptimizer /\ [][LoadOptimizerCall]_vars

\* a call of one of the two loaders
InitLoad ==
  /\ loader \in {"forecasting", "downscaling"}
  /\ preset \in {None, "", "unet"}
  /\ model_arg \in {None} \cup ModelNames
  /\ model_kwargs = None
  /\ net_arg \in {None} \cup UserNets
  /\ MODEL_REGISTRY \in {ModelNames \ {"", "unet"}, ModelNames \ {""}, {}}
  /\ out_in_subset \in BOOLEAN
  /\ optim \in {None, "SGD", "AdamWCosineAnnealingLR", "lion"}
  /\ optim_kwargs = None
  /\ lr_kwargs = None
  /\ optimizer_arg \in {None, "user_optimizer"}
  /\ train_loss \in {None, "user_train_loss"}
  /\ val_loss \in {None, "user_val_loss"}
  /\ test_loss \in {None, "user_test_loss"}
  /\ LoadEntry
  /\ loadPc = "start"
  /\ otherIdleOfLoad

SpecLoad == InitLoad /\ [][LoadNext]_vars

InitLit ==
  LitInit /\ ShuffleIdle /\ ReaderIdle /\ ForecastIdle /\ IndividualIdle
     /\ LoadIdle /\ StackedIdle

SpecLit == InitLit /\ [][LitNext]_vars

InitStacked ==
  StackedInit /\ ShuffleIdle /\ ReaderIdle /\ ForecastIdle /\ IndividualIdle
     /\ LoadIdle /\ LitIdle

SpecStacked == InitStacked /\ [][StackedNext]_vars

\* C1: at every point of ShuffleIterableDataset.__iter__ the items yielded so
\* far together with the items in the buffer are exactly the upstream items
\* consumed so far (as multisets: nothing lost, nothing invented, nothing
\* yielded twice), the iteration can always continue until it is done, and
\* when it is done the buffer is empty and the len(upstream) yielded items
\* are a permutation of the upstream, also when len(upstream) < buffer_size.
C1_ShufflePermutation ==
  /\ \A v \in Items :
       Count(yielded, v) + Count(buf, v) = Count(SubSeq(dataset, 1, consumed), v)
  /\ Range(yielded) \cup Range(buf) \subseteq Range(dataset)
  /\ Len(buf) <= buffer_size
  /\ shufflePc \in {"fill", "drain"} => ENABLED ShuffleNext
  /\ shufflePc = "done" =>
       /\ buf = <<>>
       /\ consumed = Len(dataset)
       /\ Len(yielded) = Len(dataset)
       /\ \A v \in Items : Count(yielded, v) = Count(dataset, v)

\* a finished iteration over an upstream longer than the buffer
C1_Witness ==
  /\ shufflePc = "done"
  /\ Len(dataset) > buffer_size
  /\ yielded # dataset

\* a finished iteration over an upstream shorter than the buffer
C1_WitnessShort ==
  /\ shufflePc = "done"
  /\ 0 < Len(dataset)
  /\ Len(dataset) < buffer_size

\* C2: with shuffle=False and multi_dataset_training=False inside DataLoader
\* workers, the worker (r, k) raises nothing, reads only indices of
\* [s*p, (s+1)*p) with s = r*K + k and p = floor(n / (W*K)), in increasing
\* order and all of them once it is done; every index read is within 0..n-1,
\* and two distinct workers read disjoint index ranges and disjoint files.
C2_ShardRanges ==
  (~shuffle /\ ~multi_dataset_training /\ num_workers >= 1) =>
    LET p == n_files \div (world_size * num_workers)
        s(it) == it[1] * num_workers + it[2]
    IN
    /\ \A it \in Iterators :
         /\ readerPc[it] \in {"new", "loop", "done"}
         /\ \A j \in DOMAIN loaded[it] :
              /\ loaded[it][j][1] = s(it) * p + (j - 1)
              /\ loaded[it][j][1] < (s(it) + 1) * p
              /\ loaded[it][j][1] \in 0..(n_files - 1)
              /\ loaded[it][j][2] = loaded[it][j][1] + 1
         /\ readerPc[it] = "done" => LoadedIdx(it) = (s(it) * p)..((s(it) + 1) * p - 1)
    /\ \A it1, it2 \in Iterators :
         it1 # it2 => /\ LoadedIdx(it1) \cap LoadedIdx(it2) = {}
                      /\ LoadedFiles(it1) \cap LoadedFiles(it2) = {}

\* four workers (two processes with two workers each) have all read their range
C2_Witness ==
  /\ ~shuffle /\ ~multi_dataset_training
  /\ world_size = 2 /\ num_workers = 2
  /\ n_files = 4
  /\ \A it \in Iterators : readerPc[it] = "done" /\ Len(loaded[it]) = 1

\* files read by at least one iterator, and the number of reads of file f
AllLoadedFiles == UNION {LoadedFiles(it) : it \in Iterators}

Reads(f) ==
  Cardinality({<<it, j>> \in Iterators \X (1..n_files) :
                 j \in DOMAIN loaded[it] /\ loaded[it][j][2] = f})

\* C11: with shuffle=False and multi_dataset_training=False and
\* S = num_workers * world_size shards over n files, no worker ever reads a
\* file outside the first S*floor(n/S), and once every worker is done the
\* files read are exactly the first S*floor(n/S), each by exactly one worker
\* and once, so the files read by nobody are the last n mod S: every file is
\* read when S divides n and none when n < S.  When worker_info is None
\* (num_workers = 0) the iterator reads all n files in order.
C11_ShardCoverage ==
  (~shuffle /\ ~multi_dataset_training) =>
    IF num_workers = 0
      THEN \A it \in Iterators :
             /\ readerPc[it] \in {"new", "loop", "done"}
             /\ \A j \in DOMAIN loaded[it] : loaded[it][j] = <<j - 1, j>>
             /\ readerPc[it] = "done" => Len(loaded[it]) = n_files
      ELSE
        LET S == num_workers * world_size
            covered == S * (n_files \div S)
        IN
        /\ AllLoadedFiles \subseteq 1..covered
        /\ \A f \in 1..n_files : Reads(f) <= 1
        /\ (\A it \in Iterators : readerPc[it] = "done") =>
             /\ AllLoadedFiles = 1..covered
             /\ (1..n_files) \ AllLoadedFiles = (n_files - (n_files % S) + 1)..n_files
             /\ \A f \in 1..covered : Reads(f) = 1
             /\ n_files % S = 0 => AllLoadedFiles = 1..n_files
             /\ n_files < S => AllLoadedFiles = {}

\* two workers of one process are done with three files: the third is unread
C11_Witness ==
  /\ ~shuffle /\ ~multi_dataset_training
  /\ world_size = 1 /\ num_workers = 2
  /\ n_files = 3
  /\ \A it \in Iterators : readerPc[it] = "done"
  /\ AllLoadedFiles = {1, 2}

\* C10: with shuffle=True, the sets of files read by two distinct DataLoader
\* workers of the same epoch are disjoint, whatever order each worker's own
\* random.shuffle produces (stated for multi_dataset_training=False, where
\* the index ranges of distinct workers are disjoint).
C10_ShuffledShardsDisjoint ==
  (shuffle /\ ~multi_dataset_training /\ num_workers >= 1) =>
    \A it1, it2 \in Iterators :
      it1 # it2 => LoadedFiles(it1) \cap LoadedFiles(it2) = {}

\* what C3 states of every window of a yielded file
ForecastTargetsRight ==
  /\ forecastPc # "IndexError"
  /\ forecastPc = "yielded" =>
       \A i \in 1..Len(inp_data) :
         /\ min_pred_range <= predict_ranges[i]
         /\ predict_ranges[i] <= max_pred_range
         /\ ~random_lead_time => predict_ranges[i] = max_pred_range
         /\ output_ids[i] = (i - 1) + (history - 1) * window + predict_ranges[i]
         /\ 0 <= output_ids[i]
         /\ output_ids[i] <= time_steps - 1
         /\ out_data[i] = output_ids[i]
         /\ out_data[i] = inp_data[i][history] + predict_ranges[i]

\* C3 as stated: for history >= 1, window >= 1 and
\* min_pred_range <= max_pred_range every yielded window i has
\* min_pred_range <= p_i <= max_pred_range (p_i = max_pred_range without
\* random lead time) and its target is the frame i + (h-1)*w + p_i of the
\* file, never out of bounds, never wrapped, p_i steps after the newest input
\* frame.
C3_AsStated ==
  (history >= 1 /\ window >= 1 /\ min_pred_range <= max_pred_range)
    => ForecastTargetsRight

\* C3, amended: the same for 0 <= min_pred_range <= max_pred_range.
C3_TargetsInBounds ==
  (history >= 1 /\ window >= 1 /\ 0 <= min_pred_range
     /\ min_pred_range <= max_pred_range)
    => ForecastTargetsRight

\* a file yielded three windows with a history of two frames and random lead
\* times that differ
C3_Witness ==
  /\ forecastPc = "yielded"
  /\ random_lead_time
  /\ 0 <= min_pred_range
  /\ history = 2
  /\ Len(inp_data) >= 2
  /\ predict_ranges[1] # predict_ranges[2]

\* what C12 states of the input windows of a file the pass has gone through
ForecastWindowsRight ==
  LET offset == (history - 1) * window + max_pred_range IN
  /\ forecastPc = "yielded"
  /\ Len(inp_data) = time_steps - offset
  /\ \A i \in 1..Len(inp_data) :
       /\ Len(inp_data[i]) = history
       /\ \A t \in 1..history :
            /\ inp_data[i][t] = (i - 1) + (t - 1) * window
            /\ inp_data[i][t] <= time_steps - 1

\* the pass over the file has ended, by the yield or by an exception
ForecastPassed == forecastPc \in {"yielded", "IndexError", "RuntimeError"}

\* C12 as stated: for a file of T time steps and
\* offset = (history-1)*window + max_pred_range with 0 < offset < T, exactly
\* T - offset windows are yielded and slot t of window i holds the source
\* frame i + t*window <= T-1, none wrapped around by the roll.
C12_AsStated ==
  LET offset == (history - 1) * window + max_pred_range IN
  (ForecastPassed /\ 0 < offset /\ offset < time_steps) => ForecastWindowsRight

\* C12, amended: the same for 0 <= min_pred_range <= max_pred_range.
C12_InputWindows ==
  LET offset == (history - 1) * window + max_pred_range IN
  (ForecastPassed /\ 0 < offset /\ offset < time_steps
     /\ 0 <= min_pred_range /\ min_pred_range <= max_pred_range)
    => ForecastWindowsRight

\* a file of five time steps yielded two windows of two frames, two steps apart
C12_Witness ==
  /\ forecastPc = "yielded"
  /\ time_steps = 5 /\ history = 2 /\ window = 2
  /\ min_pred_range = 0 /\ max_pred_range = 1
  /\ inp_data = <<<<0, 2>>, <<1, 3>>>>

C4_ValidateModelKwargs ==
  loadPc \in {"validated", "raised"} =>
    /\ (loadExc = "RuntimeError")
         <=> (preset = None /\ model_arg = None /\ net_arg = None)
    /\ loadExc \in {None, "RuntimeError"}
    /\ loadExc = None =>
         /\ loadPc = "validated"
         /\ model = IF preset \notin {None, ""} THEN preset ELSE model_arg

\* a falsy preset that is not None: the model argument is returned, and a
\* warning was issued
C4_Witness ==
  /\ loadPc = "validated"
  /\ preset = ""
  /\ model_arg = "unet"
  /\ model = "unet"
  /\ warned # <<>>

\* C5: whenever the resolved model name (preset if given, else model) is
\* non-empty and is not a key of MODEL_REGISTRY, the call of either loader ends
\* with NotImplementedError, before any optimizer, loss or LitModule is
\* constructed.
C5_UnregisteredModel ==
  LET resolved == IF preset \notin {None, ""} THEN preset ELSE model_arg IN
  (resolved \notin {None, ""} /\ resolved \notin MODEL_REGISTRY) =>
    /\ loadPc \in {"start", "validated", "raised"}
    /\ loadPc = "raised" => loadExc = "NotImplementedError"
    /\ constructed = <<>>
    /\ model_module = <<>>
    /\ optimizer = optimizer_arg
    /\ <<train_loss, val_loss, test_loss>> \in
         {None, "user_train_loss"} \X {None, "user_val_loss"} \X {None, "user_test_loss"}

\* the downscaling loader ended with NotImplementedError for a preset that is
\* not registered, although a net and an optimizer were passed
C5_Witness ==
  /\ loader = "downscaling"
  /\ preset = "unet"
  /\ "unet" \notin MODEL_REGISTRY
  /\ MODEL_REGISTRY # {}
  /\ net_arg = "user_net"
  /\ optimizer_arg = "user_optimizer"
  /\ loadPc = "raised"
  /\ loadExc = "NotImplementedError"

\* C8: _load_optimizer, for a net with at least one parameter: when both optim
\* and optimizer are given it raises RuntimeError; when exactly one of them is
\* given it raises nothing (optim naming an implemented optimizer), and when
\* only optimizer is given the returned value is that optimizer.
C8_LoadOptimizer ==
  (loadPc \in {"optimizer", "raised"} /\ net = "user_net") =>
    /\ (optim # None /\ optimizer_arg # None) => loadExc = "RuntimeError"
    /\ (optim # None /\ optimizer_arg = None
          /\ (StartsWith(optim, "SGD") \/ StartsWith(optim, "Adam")))
         => loadExc = None
    /\ (optim = None /\ optimizer_arg # None)
         => (loadExc = None /\ optimizer = optimizer_arg)

\* the transform lists passed to LitModule(...) do not fit the loss lists
LitMismatch ==
  \/ /\ new_val_target_transforms # <<>>
     /\ Len(new_val_target_transforms[1]) # Len(new_val_loss)
  \/ /\ new_test_target_transforms # <<>>
     /\ Len(new_test_target_transforms[1]) # Len(new_test_loss)

\* C6: LitModule.__init__ raises RuntimeError if and only if
\* val_target_transforms is not None and its length differs from
\* len(val_loss), or test_target_transforms is not None and its length differs
\* from len(test_loss); in every other case construction succeeds with
\* mode == 'direct' and the two transform lists stored unchanged.
C6_LitModuleInit ==
  [][litPc = "args" =>
       /\ litPc' \in {"constructed", "RuntimeError"}
       /\ litPc' = "RuntimeError" <=> LitMismatch
       /\ litPc' = "constructed" =>
            /\ lit_mode' = <<"direct">>
            /\ lit_val_target_transforms' = new_val_target_transforms
            /\ lit_test_target_transforms' = new_test_target_transforms]_vars

\* a module constructed with a val list of two transforms and no test list
C6_Witness ==
  /\ litPc = "constructed"
  /\ new_val_target_transforms # <<>>
  /\ Len(new_val_target_transforms[1]) = 2
  /\ new_test_target_transforms = <<>>
  /\ Len(new_test_loss) = 1
  /\ lit_mode = <<"direct">>

\* C7: in evaluate, for every loss index i, when the stage's transform list is
\* None or its entry i is None, loss i is computed on the untransformed
\* prediction and target of the batch; when entry i is not None, on
\* transforms[i](yhat) and transforms[i](y); never on the transform of another
\* index.
C7_LossInputs ==
  (last_step.method # "none" /\ last_step.evaluated = <<"evaluate">>) =>
    LET loss_fns == IF last_step.method = "validation_step"
                      THEN lit_val_loss ELSE lit_test_loss
        transforms == IF last_step.method = "validation_step"
                        THEN lit_val_target_transforms
                        ELSE lit_test_target_transforms
    IN
    /\ last_step.exc = None
    /\ Len(last_step.loss_inputs) = Len(loss_fns)
    /\ \A i \in 1..Len(loss_fns) :
         last_step.loss_inputs[i] =
           IF transforms = <<>> THEN Untransformed ELSE transforms[1][i]

\* C9: constructing StackedClimateDatasetArgs from any sequence of child args
\* succeeds and stores that sequence unchanged as child_data_args; a setup
\* call calls setup on every child exactly once, in sequence order, each with
\* the data_module_args of the call, and leaves child_data_args unchanged.
C9_StackedArgs ==
  /\ stackedPc \in {"args", "constructed", "setup"}
  /\ stackedPc # "args" => child_data_args = data_args
  /\ n_setups > 0 =>
       /\ Len(child_setups) = setup_pos
       /\ \A i \in 1..Len(child_setups) :
            child_setups[i] = <<data_args[i], data_module_args>>
       /\ stackedPc = "constructed" => Len(child_setups) = Len(data_args)
       /\ stackedPc = "setup" => Len(child_setups) < Len(data_args)

\* the second setup call has gone through three children, two of them the same
C9_Witness ==
  /\ stackedPc = "constructed"
  /\ n_setups = 2
  /\ data_args = <<1, 2, 1>>
  /\ Len(child_setups) = 3
\* C14: after construction and any sequence of set_mode, set_n_iters and
\* test_step calls, every test_step performs exactly one evaluation,
\* evaluate(batch, "test") in mode 'direct' and
\* evaluate_iter(batch, n_iters, "test") with the n_iters last set in mode
\* 'iter'; it never reads n_iters before it is set and never returns without
\* evaluating.
C14_TestStep ==
  [][(n_steps' = n_steps + 1 /\ last_step'.method = "test_step") =>
       /\ last_step'.exc # "AttributeError"
       /\ Len(last_step'.evaluated) = 1
       /\ lit_mode = <<"direct">> => last_step'.evaluated = <<"evaluate">>
       /\ lit_mode = <<"iter">> =>
            /\ lit_n_iters # <<>>
            /\ last_step'.evaluated = <<"evaluate_iter">>]_vars

\* the value a binding of LitModule.__init__ gives the parameter `name`
LitSlot(binding, name) ==
  binding[CHOOSE i \in DOMAIN LitModuleParams : LitModuleParams[i] = name]

\* C15: a loader call that raised nothing up to its losses returns a LitModule
\* whose net is the built or supplied net, whose optimizer is the result of
\* _load_optimizer and whose train_loss, val_loss and test_loss are the
\* supplied or default losses: no argument is bound to the slot of another
\* parameter.
C15_Assembled ==
  [][loadPc = "losses" =>
       /\ loadPc' = "returned"
       /\ model_module' # <<>>
       /\ LitSlot(model_module'[1], "net") = net
       /\ LitSlot(model_module'[1], "optimizer") = optimizer
       /\ LitSlot(model_module'[1], "train_loss") = train_loss
       /\ LitSlot(model_module'[1], "val_loss") = val_loss
       /\ LitSlot(model_module'[1], "test_loss") = test_loss]_vars

====
